---- MODULE Spec2Model ----
(***************************************************************************)
(* Model of src/inital.py: the address book of validated contact records.  *)
(*                                                                         *)
(* Python strings are modelled as sequences of one-character strings, so   *)
(* that the regular expression of Phone.__init__ is evaluated character by *)
(* character.  Python objects are modelled by their identity: Phone object *)
(* p is the index p of the heap `value`, Record object r is the index r of *)
(* `name` and `phones`.  A list of Phone objects is a sequence of Phone    *)
(* identities.                                                             *)
(***************************************************************************)
EXTENDS Integers, Sequences, FiniteSets, TLC

VARIABLES
    value,      \* value[p]  : Field.value of Phone object p
    name,       \* name[r]   : Name.value of Record object r (self.name.value)
    phones,     \* phones[r] : Record.phones of Record object r, Phone identities
    data,       \* AddressBook.data : name -> Record identity (the insertion
                \* order of the dict, seen only by AddressBook.__str__, is
                \* not kept)
    call,       \* the last call made: [op, rec, a1, a2]
    ret,        \* what the last call returned: [kind, id]
    exc,        \* the exception that escaped the last call ("none" if none)
    input       \* the string handed to a constructor (SpecField only)

vars == <<value, name, phones, data, call, ret, exc, input>>

(***************************************************************************)
(* Bounds.                                                                 *)
(***************************************************************************)
MaxObjs == 3        \* Record objects and stored Phone objects of one run
MaxStrLen == 11     \* length of a candidate string in SpecField

(***************************************************************************)
(* Program constant: the repetition count of r'\d{10}'.                    *)
(***************************************************************************)
PhoneLen == 10

(***************************************************************************)
(* Strings.                                                                *)
(***************************************************************************)
\* The characters \d matches.  (In Python \d also matches the decimal digits
\* of other scripts; they behave as the ten below.)
Digits == {"0", "1", "2", "3", "4", "5", "6", "7", "8", "9"}

\* The characters candidate strings are made of in SpecField: two digits
\* and one character that is not a digit.
Alphabet == {"0", "7", "x"}

Strings(n) == UNION {[1..k -> Alphabet] : k \in 0..n}

Rep(c, n) == [i \in 1..n |-> c]

\* "1234567890", "5555555555": the numbers of the sample driver.
P1 == <<"1", "2", "3", "4", "5", "6", "7", "8", "9", "0">>
P2 == Rep("5", 10)
\* Candidates that are not 10 digits: too short ("12345"), with a non-digit.
PShort == <<"1", "2", "3", "4", "5">>
PAlpha == <<"1", "2", "3", "4", "5", "6", "7", "8", "9", "x">>

PhoneInputs == {P1, P2, PShort, PAlpha}

John == <<"J", "o", "h", "n">>
Jane == <<"J", "a", "n", "e">>
NameInputs == {<<>>, John, Jane}

(***************************************************************************)
(* Return values.                                                          *)
(***************************************************************************)
RNone == [kind |-> "None", id |-> 0]
RTrue == [kind |-> "True", id |-> 0]
RFalse == [kind |-> "False", id |-> 0]
RPhone(p) == [kind |-> "Phone", id |-> p]
RRecord(r) == [kind |-> "Record", id |-> r]

(***************************************************************************)
(* Field, Name, Phone.                                                     *)
(***************************************************************************)
\* Field.__init__: self.value = value
Field_init(v) == v

\* \d
IsDigit(c) == c \in Digits

\* re.fullmatch(r'\d{10}', phone) is not None
fullmatch_d10_isdigit(s) == Len(s) > 0 /\ \A i \in 1..Len(s) : IsDigit(s[i])
fullmatch_d10_match(s) ==
    Len(s) >= PhoneLen /\ \A i \in 1..PhoneLen : IsDigit(s[i])
fullmatch_d10(s) == Len(s) = PhoneLen /\ \A i \in 1..Len(s) : IsDigit(s[i])

\* Phone.__init__
Phone_init(s) ==
    IF ~fullmatch_d10(s)
    THEN [exc |-> "ValueError", value |-> <<>>]
    ELSE [exc |-> "none", value |-> Field_init(s)]

\* Name.__init__
Name_init_isnone(s) == [exc |-> "none", value |-> Field_init(s)]
Name_init(s) ==
    IF s = <<>>
    THEN [exc |-> "ValueError", value |-> <<>>]
    ELSE [exc |-> "none", value |-> Field_init(s)]

(***************************************************************************)
(* Record.                                                                 *)
(***************************************************************************)
\* Record.__init__: self.name = Name(name); self.phones = []
\* nm, phs: the names and the phone lists of the Record objects so far.
Record_init(nm, phs, s) ==
    LET n == Name_init(s) IN
    IF n.exc # "none"
    THEN [name |-> nm, phones |-> phs, exc |-> n.exc, ret |-> RNone]
    ELSE [name |-> Append(nm, n.value), phones |-> Append(phs, <<>>),
          exc |-> "none", ret |-> RRecord(Len(nm) + 1)]

\* for phone_obj in self.phones: if phone_obj.value == phone:
\* the position of the first Phone of ph whose value is v, 0 if there is none.
first_with_value(val, ph, v) ==
    IF \E i \in 1..Len(ph) : val[ph[i]] = v
    THEN CHOOSE i \in 1..Len(ph) :
            /\ val[ph[i]] = v
            /\ \A j \in 1..(i - 1) : val[ph[j]] # v
    ELSE 0

\* list.remove(x): drops the first element equal to x.  Field defines no
\* __eq__, so two Phone objects are equal only when they are the same object.
list_remove(ph, x) ==
    LET i == CHOOSE k \in 1..Len(ph) :
                 ph[k] = x /\ \A j \in 1..(k - 1) : ph[j] # x
    IN  [k \in 1..(Len(ph) - 1) |-> IF k < i THEN ph[k] ELSE ph[k + 1]]

\* Record.add_phone, on the heap val and the list ph of the record.
add_phone_step_nocatch(val, ph, s) ==
    LET new == Phone_init(s) IN
    IF new.exc = "none"
    THEN [value |-> Append(val, new.value),
          phones |-> Append(ph, Len(val) + 1), exc |-> "none"]
    ELSE [value |-> val, phones |-> ph, exc |-> new.exc]
add_phone_step(val, ph, s) ==
    LET new == Phone_init(s) IN
    IF new.exc = "none"
    THEN [value |-> Append(val, new.value),
          phones |-> Append(ph, Len(val) + 1), exc |-> "none"]
    ELSE [value |-> val, phones |-> ph, exc |-> "none"]

\* Record.remove_phone
remove_phone_step_all(val, ph, v) ==
    LET i == first_with_value(val, ph, v) IN
    IF i = 0
    THEN [phones |-> ph, ret |-> RFalse]
    ELSE [phones |-> SelectSeq(ph, LAMBDA p : val[p] # v), ret |-> RTrue]
remove_phone_step(val, ph, v) ==
    LET i == first_with_value(val, ph, v) IN
    IF i = 0
    THEN [phones |-> ph, ret |-> RFalse]
    ELSE [phones |-> list_remove(ph, ph[i]), ret |-> RTrue]

\* Record.edit_phone
\* Mutant: the new value is stored before it is validated.
edit_phone_step_unvalidated(val, ph, old, new) ==
    LET i == first_with_value(val, ph, old) IN
    IF i = 0
    THEN [value |-> val, phones |-> ph, ret |-> RFalse]
    ELSE [value |-> [val EXCEPT ![ph[i]] = new], phones |-> ph,
          ret |-> IF Phone_init(new).exc = "none" THEN RTrue ELSE RFalse]
\* Mutant: the loop does not stop at the first match.
edit_phone_step_every(val, ph, old, new) ==
    LET i == first_with_value(val, ph, old)
        validated_phone == Phone_init(new)
    IN  IF i = 0
        THEN [value |-> val, phones |-> ph, ret |-> RFalse]
        ELSE IF validated_phone.exc = "none"
             THEN [value |-> [p \in 1..Len(val) |->
                                IF val[p] = old /\ \E k \in 1..Len(ph) : ph[k] = p
                                THEN validated_phone.value ELSE val[p]],
                   phones |-> ph, ret |-> RTrue]
             ELSE [value |-> val, phones |-> ph, ret |-> RFalse]
\* Mutant: the validated Phone object takes the place of the old one.
edit_phone_step_replace(val, ph, old, new) ==
    LET i == first_with_value(val, ph, old)
        validated_phone == Phone_init(new)
    IN  IF i = 0
        THEN [value |-> val, phones |-> ph, ret |-> RFalse]
        ELSE IF validated_phone.exc = "none"
             THEN [value |-> Append(val, validated_phone.value),
                   phones |-> [ph EXCEPT ![i] = Len(val) + 1], ret |-> RTrue]
             ELSE [value |-> val, phones |-> ph, ret |-> RFalse]
edit_phone_step(val, ph, old, new) ==
    LET i == first_with_value(val, ph, old)
        validated_phone == Phone_init(new)
    IN  IF i = 0
        THEN [value |-> val, phones |-> ph, ret |-> RFalse]
        ELSE IF validated_phone.exc = "none"
             THEN [value |-> [val EXCEPT ![ph[i]] = validated_phone.value],
                   phones |-> ph, ret |-> RTrue]
             ELSE [value |-> val, phones |-> ph, ret |-> RFalse]

\* Record.find_phone
find_phone_step(val, ph, v) ==
    LET i == first_with_value(val, ph, v) IN
    IF i = 0 THEN RNone ELSE RPhone(ph[i])

\* '; '.join(p.value for p in self.phones)
RECURSIVE join(_, _)
join(sep, strs) ==
    IF strs = <<>> THEN <<>>
    ELSE IF Len(strs) = 1 THEN strs[1]
    ELSE strs[1] \o sep \o join(sep, Tail(strs))

ContactNameLit ==
    <<"C", "o", "n", "t", "a", "c", "t", " ", "n", "a", "m", "e", ":", " ">>
PhonesLit == <<",", " ", "p", "h", "o", "n", "e", "s", ":", " ">>
SepLit == <<";", " ">>

\* Record.__str__ of the record with name n and phone list ph
Record_str(val, n, ph) ==
    ContactNameLit \o n \o PhonesLit
        \o join(SepLit, [i \in 1..Len(ph) |-> val[ph[i]]])

(***************************************************************************)
(* AddressBook.                                                            *)
(***************************************************************************)
\* AddressBook.add_record: self.data[record.name.value] = record
add_record_step_setdefault(d, key, r) ==
    IF key \in DOMAIN d THEN d
    ELSE [k \in DOMAIN d \cup {key} |-> IF k = key THEN r ELSE d[k]]
add_record_step(d, key, r) ==
    [k \in DOMAIN d \cup {key} |-> IF k = key THEN r ELSE d[k]]

\* AddressBook.find: self.data.get(name)
find_step(d, n) == IF n \in DOMAIN d THEN RRecord(d[n]) ELSE RNone

\* AddressBook.delete
delete_step_unguarded(d, n) ==
    IF n \in DOMAIN d
    THEN [data |-> [k \in DOMAIN d \ {n} |-> d[k]], exc |-> "none"]
    ELSE [data |-> d, exc |-> "KeyError"]
delete_step(d, n) ==
    IF n \in DOMAIN d
    THEN [data |-> [k \in DOMAIN d \ {n} |-> d[k]], exc |-> "none"]
    ELSE [data |-> d, exc |-> "none"]

(***************************************************************************)
(* The state machine: a caller that holds every Record object it has       *)
(* constructed, and one AddressBook.                                       *)
(***************************************************************************)
NoCall == [op |-> "init", rec |-> 0, a1 |-> <<>>, a2 |-> <<>>]
EmptyDict == [k \in {} |-> 0]

\* book = AddressBook(): no Record, no Phone, an empty mapping.
Init ==
    /\ value = <<>>
    /\ name = <<>>
    /\ phones = <<>>
    /\ data = EmptyDict
    /\ call = NoCall
    /\ ret = RNone
    /\ exc = "none"
    /\ input = <<>>

\* Record(s)
NewRecord(s) ==
    LET res == Record_init(name, phones, s) IN
    /\ Len(res.name) + Len(value) <= MaxObjs
    /\ name' = res.name
    /\ phones' = res.phones
    /\ ret' = res.ret
    /\ exc' = res.exc
    /\ call' = [op |-> "Record", rec |-> 0, a1 |-> s, a2 |-> <<>>]
    /\ UNCHANGED <<value, data, input>>

\* r.add_phone(s)
AddPhone(r, s) ==
    LET res == add_phone_step(value, phones[r], s) IN
    /\ Len(name) + Len(res.value) <= MaxObjs
    /\ value' = res.value
    /\ phones' = [phones EXCEPT ![r] = res.phones]
    /\ ret' = RNone
    /\ exc' = res.exc
    /\ call' = [op |-> "add_phone", rec |-> r, a1 |-> s, a2 |-> <<>>]
    /\ UNCHANGED <<name, data, input>>

\* r.remove_phone(s)
RemovePhone(r, s) ==
    LET res == remove_phone_step(value, phones[r], s) IN
    /\ phones' = [phones EXCEPT ![r] = res.phones]
    /\ ret' = res.ret
    /\ exc' = "none"
    /\ call' = [op |-> "remove_phone", rec |-> r, a1 |-> s, a2 |-> <<>>]
    /\ UNCHANGED <<value, name, data, input>>

\* r.edit_phone(old, new)
EditPhone(r, old, new) ==
    LET res == edit_phone_step(value, phones[r], old, new) IN
    /\ value' = res.value
    /\ phones' = [phones EXCEPT ![r] = res.phones]
    /\ ret' = res.ret
    /\ exc' = "none"
    /\ call' = [op |-> "edit_phone", rec |-> r, a1 |-> old, a2 |-> new]
    /\ UNCHANGED <<name, data, input>>

\* r.find_phone(s)
FindPhone(r, s) ==
    LET res == find_phone_step(value, phones[r], s) IN
    /\ ret' = res
    /\ exc' = "none"
    /\ call' = [op |-> "find_phone", rec |-> r, a1 |-> s, a2 |-> <<>>]
    /\ UNCHANGED <<value, name, phones, data, input>>

\* book.add_record(r)
AddRecord(r) ==
    /\ data' = add_record_step(data, name[r], r)
    /\ ret' = RNone
    /\ exc' = "none"
    /\ call' = [op |-> "add_record", rec |-> r, a1 |-> <<>>, a2 |-> <<>>]
    /\ UNCHANGED <<value, name, phones, input>>

\* book.find(n)
Find(n) ==
    /\ ret' = find_step(data, n)
    /\ exc' = "none"
    /\ call' = [op |-> "find", rec |-> 0, a1 |-> n, a2 |-> <<>>]
    /\ UNCHANGED <<value, name, phones, data, input>>

\* book.delete(n)
Delete(n) ==
    LET res == delete_step(data, n) IN
    /\ data' = res.data
    /\ ret' = RNone
    /\ exc' = res.exc
    /\ call' = [op |-> "delete", rec |-> 0, a1 |-> n, a2 |-> <<>>]
    /\ UNCHANGED <<value, name, phones, input>>

Records == 1..Len(name)

Next ==
    \/ \E s \in NameInputs : NewRecord(s)
    \/ \E r \in Records, s \in PhoneInputs : AddPhone(r, s)
    \/ \E r \in Records, s \in PhoneInputs : RemovePhone(r, s)
    \/ \E r \in Records, old \in PhoneInputs, new \in PhoneInputs :
          EditPhone(r, old, new)
    \/ \E r \in Records, s \in PhoneInputs : FindPhone(r, s)
    \/ \E r \in Records : AddRecord(r)
    \/ \E n \in NameInputs : Find(n)
    \/ \E n \in NameInputs : Delete(n)

Spec == Init /\ [][Next]_vars

(***************************************************************************)
(* The constructor of Phone on its own, over every string of at most       *)
(* MaxStrLen characters of Alphabet.                                       *)
(***************************************************************************)
InitPhone ==
    /\ input \in Strings(MaxStrLen)
    /\ value = <<>>
    /\ name = <<>>
    /\ phones = <<>>
    /\ data = EmptyDict
    /\ call = NoCall
    /\ ret = RNone
    /\ exc = "none"

\* p = Phone(input)
MakePhone ==
    LET res == Phone_init(input) IN
    /\ call.op = "init"
    /\ value' = IF res.exc = "none" THEN Append(value, res.value) ELSE value
    /\ ret' = IF res.exc = "none" THEN RPhone(Len(value) + 1) ELSE RNone
    /\ exc' = res.exc
    /\ call' = [op |-> "Phone", rec |-> 0, a1 |-> input, a2 |-> <<>>]
    /\ UNCHANGED <<name, phones, data, input>>

NextPhone == MakePhone

SpecPhone == InitPhone /\ [][NextPhone]_vars

(***************************************************************************)
(* Properties.                                                             *)
(***************************************************************************)
\* s is made of exactly 10 digit characters.
TenDigits(s) == Len(s) = 10 /\ \A i \in 1..Len(s) : s[i] \in Digits

\* The values of the Phone objects of the list ph, in order.
PhoneValues(val, ph) == [i \in 1..Len(ph) |-> val[ph[i]]]

\* C1: Phone(s) raises the validation error for every s whose length is
\* not 10 or that holds a non-digit, and succeeds for every s of exactly 10
\* digits, the value of the new Phone being s.
C1_PhoneValidation ==
    call.op = "Phone" =>
        /\ (Len(input) # 10 \/ \E i \in 1..Len(input) : input[i] \notin Digits)
              => exc = "ValueError" /\ ret = RNone /\ value = <<>>
        /\ TenDigits(input)
              => exc = "none" /\ ret.kind = "Phone" /\ value[ret.id] = input

C1_Witness ==
    /\ call.op = "Phone"
    /\ TenDigits(input)
    /\ \E i, j \in 1..Len(input) : input[i] # input[j]
    /\ exc = "none"
    /\ value = <<input>>

\* C2: add_phone with a candidate that is not exactly 10 digits changes no
\* record's phones, no Phone, and lets no exception escape, whatever the
\* phones held before and however often it is repeated.
C2_AddInvalidNoChange ==
    [][(call'.op = "add_phone" /\ ~TenDigits(call'.a1)) =>
          /\ phones' = phones
          /\ value' = value
          /\ exc' = "none"]_vars

C2_Witness ==
    /\ call.op = "add_phone"
    /\ ~TenDigits(call.a1)
    /\ Len(phones[call.rec]) = 2
    /\ exc = "none"

\* C3: edit_phone(old, new) with an invalid new returns False and leaves the
\* values of the phones of every record as they were, in the same order,
\* whether old is present or not.
C3_EditInvalidNoChange ==
    [][(call'.op = "edit_phone" /\ ~TenDigits(call'.a2)) =>
          /\ ret' = RFalse
          /\ Len(phones') = Len(phones)
          /\ \A r \in Records :
                PhoneValues(value', phones'[r]) = PhoneValues(value, phones[r])]_vars

C3_Witness ==
    /\ call.op = "edit_phone"
    /\ ~TenDigits(call.a2)
    /\ ret = RFalse
    /\ \E i \in 1..Len(phones[call.rec]) : value[phones[call.rec][i]] = call.a1

\* C4: edit_phone(old, new) with a valid new: when some phone equals old it
\* returns True and the values of the phones differ from those before only
\* at the position of the first phone equal to old, which holds new; when
\* none equals old it returns False and the values are unchanged.
C4_EditFirstMatch ==
    [][(call'.op = "edit_phone" /\ TenDigits(call'.a2)) =>
          LET r == call'.rec
              old == call'.a1
              new == call'.a2
              before == PhoneValues(value, phones[r])
              after == PhoneValues(value', phones'[r])
          IN  IF \E i \in 1..Len(before) : before[i] = old
              THEN /\ ret' = RTrue
                   /\ Len(after) = Len(before)
                   /\ \E i \in 1..Len(before) :
                         /\ before[i] = old
                         /\ \A j \in 1..(i - 1) : before[j] # old
                         /\ after[i] = new
                         /\ \A j \in 1..Len(before) :
                               j # i => after[j] = before[j]
              ELSE /\ ret' = RFalse
                   /\ after = before]_vars

C4_Witness ==
    /\ call.op = "edit_phone"
    /\ ret = RTrue
    /\ call.a1 # call.a2
    /\ PhoneValues(value, phones[call.rec]) = <<call.a2, call.a1>>

C6_AddThenFind ==
    [][call'.op = "add_record" =>
          LET r == call'.rec
              found == find_step(data', name'[r])
          IN  /\ found.kind = "Record"
              /\ Record_str(value', name'[found.id], phones'[found.id])
                   = Record_str(value', name'[r], phones'[r])
              /\ DOMAIN data' = DOMAIN data \cup {name[r]}
              /\ \A k \in DOMAIN data \ {name[r]} : data'[k] = data[k]]_vars

C6_Witness ==
    /\ call.op = "add_record"
    /\ Cardinality(DOMAIN data) = 1
    /\ \E r \in Records :
          /\ r # call.rec
          /\ name[r] = name[call.rec]
          /\ PhoneValues(value, phones[r]) # PhoneValues(value, phones[call.rec])
    /\ data[name[call.rec]] = call.rec

\* C7: delete(n) removes the entry of n and nothing else and raises nothing:
\* find(n) is absent afterwards, every other entry is unchanged, and when n
\* was absent the mapping is unchanged.
C7_DeleteFrame ==
    [][call'.op = "delete" =>
          LET n == call'.a1 IN
          /\ exc' = "none"
          /\ find_step(data', n) = RNone
          /\ DOMAIN data' = DOMAIN data \ {n}
          /\ \A k \in DOMAIN data' : data'[k] = data[k]
          /\ n \notin DOMAIN data => data' = data
          /\ name' = name /\ phones' = phones /\ value' = value]_vars

C7_Witness ==
    /\ call.op = "delete"
    /\ call.a1 = John
    /\ DOMAIN data = {Jane}
    /\ \E r \in Records : name[r] = John
    /\ exc = "none"

C9_NameNotEmpty ==
    /\ call.op = "Record" =>
          /\ call.a1 = <<>> => exc = "ValueError" /\ ret = RNone
          /\ call.a1 # <<>> =>
                exc = "none" /\ ret.kind = "Record" /\ name[ret.id] = call.a1
    /\ \A r \in Records : name[r] # <<>>

C9_Witness ==
    /\ call.op = "Record"
    /\ call.a1 = <<>>
    /\ exc = "ValueError"
    /\ Len(name) = 1

\* C10: every phone of every record holds a value of exactly 10 digits.
C10_PhonesValid ==
    \A r \in Records :
        \A i \in 1..Len(phones[r]) : TenDigits(value[phones[r][i]])

C10_Witness ==
    /\ call.op = "edit_phone"
    /\ ~TenDigits(call.a2)
    /\ Len(phones[call.rec]) = 2
    /\ \E i \in 1..2 : value[phones[call.rec][i]] = call.a1

====
